---- MODULE Spec2Model ----
(***************************************************************************)
(* The bike-share notebook notebooks/apachespark/apachespark.py as a state *)
(* machine.  The state is the notebook's variables, one action per cell    *)
(* (the loop of In[20] takes one step per iteration).  The library calls   *)
(* the cells make (Spark SQL, DataFrame.sample, groupBy/count, pandas      *)
(* sort, to_datetime, resample) are operators that compute what the call   *)
(* computes; where the library leaves the outcome open (the order of the   *)
(* groups, the pseudo-random draws of a seed) the action chooses among the *)
(* outcomes.                                                               *)
(***************************************************************************)
EXTENDS Integers, Sequences, FiniteSets, TLC

VARIABLES pc, btd, df2, df3, s1, s2, dep_stations, top, i, df, temp,
          pop_stations, data

vars == <<pc, btd, df2, df3, s1, s2, dep_stations, top, i, df, temp,
          pop_stations, data>>

(* ------------------------------ bounds -------------------------------- *)

\* Longest dataset btd of the model.
MaxRows == 3

(* ------------------------- program constants -------------------------- *)

TwoHours == 7200
HalfHour == 2000
\* The fraction 0.05 of both sample calls, in hundredths.
Fraction == 5
Seed1 == 20
Seed2 == 2500
TopN == 3
HoursPerDay == 24

(* ------------------------------ helpers ------------------------------- *)

RECURSIVE SumSeq(_)
SumSeq(s) == IF s = <<>> THEN 0 ELSE Head(s) + SumSeq(Tail(s))

RECURSIVE Flatten(_)
Flatten(ss) == IF ss = <<>> THEN <<>> ELSE Head(ss) \o Flatten(Tail(ss))

Range(s) == {s[k] : k \in DOMAIN s}

Take(s, n) == SubSeq(s, 1, IF Len(s) < n THEN Len(s) ELSE n)

Min(S) == CHOOSE x \in S : \A y \in S : x <= y
Max(S) == CHOOSE x \in S : \A y \in S : x >= y

\* Every arrangement of the elements of S in a sequence.
Orderings(S) ==
    {f \in [1..Cardinality(S) -> S] : \A a, b \in 1..Cardinality(S) : f[a] = f[b] => a = b}

SeqsUpTo(S, n) == UNION {[1..k -> S] : k \in 0..n}

(* ---------------------------- the dataset ----------------------------- *)

\* A 'Start Date' string "day hour": <<day, hour>>.
DateStrings == {<<1, 17>>, <<3, 8>>, <<1, 99>>}
Stations == {"A", "B", "C", "D"}
Durations == {1500, 2000, 7200}

Trip(d, st, sd) ==
    ("Duration" :> d) @@ ("Start Station" :> st) @@ ("Start Date" :> sd)

\* The schema jsonFile infers for btd2.json: the columns the notebook reads.
BtdSchema ==
    {<<"Duration", "long">>, <<"Start Date", "string">>, <<"Start Station", "string">>}

jsonFile(rows) == [schema |-> BtdSchema, rows |-> rows]

NoFrame == [schema |-> {}, rows |-> <<>>]

(* ------------------------------ Spark --------------------------------- *)

ColumnType(frame, col) == (CHOOSE c \in frame.schema : c[1] = col)[2]

\* Mutant: the comparison taken as <=.
sqlDurationAtMost(table, v) ==
    LET kept == SelectSeq(table.rows, LAMBDA r : r["Duration"] <= v)
    IN  [schema |-> {<<"d1", ColumnType(table, "Duration")>>},
         rows   |-> [k \in 1..Len(kept) |-> ("d1" :> kept[k]["Duration"])]]

\* Mutant: SELECT * in place of the projection on Duration as d1.
sqlSelectStarLessThan(table, v) ==
    [schema |-> table.schema,
     rows   |-> SelectSeq(table.rows, LAMBDA r : r["Duration"] < v)]

\* sqlCtx.sql("SELECT Duration as d1 from bay_area_bike where Duration < v")
sqlDurationLessThan(table, v) ==
    LET kept == SelectSeq(table.rows, LAMBDA r : r["Duration"] < v)
    IN  [schema |-> {<<"d1", ColumnType(table, "Duration")>>},
         rows   |-> [k \in 1..Len(kept) |-> ("d1" :> kept[k]["Duration"])]]

\* The uniform draws (in hundredths) the generator of a seed yields for n rows.
\* The generator is the library's: every stream is possible.
DrawValues == {3, 99}
RandomStream(seed, n) == [1..n -> DrawValues]

\* Number of copies of a row a Poisson draw of mean fraction gives.
PoissonCount(fraction, u) ==
    IF u < 100 - fraction THEN 0 ELSE IF u < 99 THEN 1 ELSE 2

Copies(r, n) == [k \in 1..n |-> r]

\* Mutant: the flag withReplacement ignored, rows drawn with replacement.
sampleWithReplacement(frame, withReplacement, fraction, u) ==
    [schema |-> frame.schema,
     rows   |-> Flatten([k \in 1..Len(frame.rows) |->
                           Copies(frame.rows[k], PoissonCount(fraction, u[k]))])]

\* DataFrame.sample(withReplacement, fraction, seed), u the draws of the seed.
sample(frame, withReplacement, fraction, u) ==
    LET n == Len(frame.rows)
        times(k) == IF withReplacement
                    THEN PoissonCount(fraction, u[k])
                    ELSE IF u[k] < fraction THEN 1 ELSE 0
    IN  [schema |-> frame.schema,
         rows   |-> Flatten([k \in 1..n |-> Copies(frame.rows[k], times(k))])]

\* btd.groupBy(btd[col]).count(): the groups, which Spark emits in no set order.
groupByCount(frame, col) ==
    LET keys == {r[col] : r \in Range(frame.rows)}
    IN  {(col :> key) @@
         ("count" :> Cardinality({k \in DOMAIN frame.rows : frame.rows[k][col] = key}))
           : key \in keys}

\* btd.where(btd[col] == value)
where(frame, col, value) ==
    [schema |-> frame.schema,
     rows   |-> SelectSeq(frame.rows, LAMBDA r : r[col] = value)]

\* DataFrame.select(col)
select(frame, col) ==
    [schema |-> {c \in frame.schema : c[1] = col},
     rows   |-> [k \in 1..Len(frame.rows) |-> (col :> frame.rows[k][col])]]

(* ------------------------------ pandas -------------------------------- *)

\* DataFrame.toPandas(): a new pandas frame with the rows' values.
toPandas(frame) ==
    [columns |-> {c[1] : c \in frame.schema}, rows |-> frame.rows]

NoPandas == [columns |-> {}, rows |-> <<>>]

\* Mutant: ascending=False ignored, the frame sorted ascending.
sortAscending(rows, by, ascending) ==
    {p \in Orderings(Range(rows)) :
        \A a, b \in DOMAIN p : a < b => p[a][by] <= p[b][by]}

\* Mutant: no sort, the frame left in the order of the groups.
sortKeepsOrder(rows, by, ascending) == {rows}

\* DataFrame.sort(by, ascending): the outcomes of the (unstable) sort.
sort(rows, by, ascending) ==
    {p \in Orderings(Range(rows)) :
        \A a, b \in DOMAIN p :
            a < b => IF ascending THEN p[a][by] <= p[b][by] ELSE p[a][by] >= p[b][by]}

Parsable(s) == Len(s) = 2 /\ s[1] >= 1 /\ s[2] < HoursPerDay

\* pd.to_datetime of a parsable string: hours since the epoch.
to_datetime(s) == HoursPerDay * s[1] + s[2]

\* The start of the day bin of a timestamp.
DayOf(ts) == (ts \div HoursPerDay) * HoursPerDay

NaN == [nan |-> TRUE, val |-> 0]
Float(k) == [nan |-> FALSE, val |-> k]

\* how='sum' of one bin: the sum of its values, NaN for a bin without rows.
BinSum(values) == IF values = <<>> THEN NaN ELSE Float(SumSeq(values))

\* Mutant: one bin per day that has rows, no bin for the days between.
resampleObservedDays(frame) ==
    LET days == {DayOf(r["Start Date"]) : r \in Range(frame.rows)}
        order == CHOOSE p \in Orderings(days) : \A a, b \in DOMAIN p : a < b => p[a] < p[b]
        inBin(k) == SelectSeq(frame.rows, LAMBDA r : DayOf(r["Start Date"]) = order[k])
    IN  [index  |-> order,
         counts |-> [k \in DOMAIN order |->
                        BinSum([j \in 1..Len(inBin(k)) |-> inBin(k)[j]["counts"]])]]

\* set_index('Start Date').resample('D', how='sum') of a frame with parsed dates.
resampleDailySum(frame) ==
    LET stamps == {r["Start Date"] : r \in Range(frame.rows)}
        first  == DayOf(Min(stamps))
        last   == DayOf(Max(stamps))
        ndays  == (last - first) \div HoursPerDay + 1
        bin(k) == first + (k - 1) * HoursPerDay
        inBin(k) == SelectSeq(frame.rows, LAMBDA r : DayOf(r["Start Date"]) = bin(k))
    IN  [index  |-> [k \in 1..ndays |-> bin(k)],
         counts |-> [k \in 1..ndays |->
                        BinSum([j \in 1..Len(inBin(k)) |-> inBin(k)[j]["counts"]])]]

NoSeries == [index |-> <<>>, counts |-> <<>>]

\* df['counts'] = 1
WithCounts(frame) ==
    [columns |-> frame.columns \cup {"counts"},
     rows    |-> [k \in 1..Len(frame.rows) |-> frame.rows[k] @@ ("counts" :> 1)]]

\* df['Start Date'] = df['Start Date'].apply(pd.to_datetime), every date parsable
WithParsedDates(frame) ==
    [columns |-> frame.columns,
     rows    |-> [k \in 1..Len(frame.rows) |->
                    ("Start Date" :> to_datetime(frame.rows[k]["Start Date"]))
                    @@ frame.rows[k]]]

\* Mutant: transform_df works on a copy and leaves its argument as it was.
transform_df_on_copy(frame) ==
    IF \A r \in Range(frame.rows) : Parsable(r["Start Date"])
    THEN [raised |-> FALSE, df |-> frame,
          result |-> resampleDailySum(WithParsedDates(WithCounts(frame)))]
    ELSE [raised |-> TRUE, df |-> frame, result |-> NoSeries]

\* transform_df(df): the frame df as the call leaves it, whether it raised,
\* and the frame it returns.
transform_df(frame) ==
    IF \A r \in Range(frame.rows) : Parsable(r["Start Date"])
    THEN [raised |-> FALSE, df |-> WithParsedDates(WithCounts(frame)),
          result |-> resampleDailySum(WithParsedDates(WithCounts(frame)))]
    ELSE [raised |-> TRUE, df |-> WithCounts(frame), result |-> NoSeries]

\* Scatter(x=temp.index, y=temp.counts, name=station)
Scatter(x, y, name) == [x |-> x, y |-> y, name |-> name]

(* ------------------------------ Init ---------------------------------- *)

\* Datasets that vary in Duration, datasets that vary in station and date, and
\* (one row longer) datasets that vary in station alone.
DurationTrips == {Trip(d, "A", <<1, 17>>) : d \in Durations}
StationTrips == {Trip(TwoHours, st, sd) : st \in Stations, sd \in DateStrings}
StationOnlyTrips == {Trip(TwoHours, st, <<1, 17>>) : st \in Stations}

Datasets ==
    SeqsUpTo(DurationTrips, MaxRows) \cup SeqsUpTo(StationTrips, MaxRows)
        \cup SeqsUpTo(StationOnlyTrips, MaxRows + 1)

Init ==
    /\ pc = "In9"
    /\ btd \in {jsonFile(rows) : rows \in Datasets}
    /\ df2 = NoFrame
    /\ df3 = NoFrame
    /\ s1 = NoFrame
    /\ s2 = NoFrame
    /\ dep_stations = <<>>
    /\ top = <<>>
    /\ i = 1
    /\ df = NoPandas
    /\ temp = NoSeries
    /\ pop_stations = <<>>
    /\ data = <<>>

(* ------------------------------ cells --------------------------------- *)

In9 ==
    /\ pc = "In9"
    /\ df2' = sqlDurationLessThan(btd, TwoHours)
    /\ pc' = "In12"
    /\ UNCHANGED <<btd, df3, s1, s2, dep_stations, top, i, df, temp, pop_stations, data>>

In12 ==
    /\ pc = "In12"
    /\ df3' = sqlDurationLessThan(btd, HalfHour)
    /\ pc' = "In13"
    /\ UNCHANGED <<btd, df2, s1, s2, dep_stations, top, i, df, temp, pop_stations, data>>

In13 ==
    /\ pc = "In13"
    /\ \E u1 \in RandomStream(Seed1, Len(df2.rows)) :
       \E u2 \in RandomStream(Seed2, Len(df3.rows)) :
          /\ s1' = sample(df2, FALSE, Fraction, u1)
          /\ s2' = sample(df3, FALSE, Fraction, u2)
    /\ pc' = "In17"
    /\ UNCHANGED <<btd, df2, df3, dep_stations, top, i, df, temp, pop_stations, data>>

In17 ==
    /\ pc = "In17"
    /\ \E g \in Orderings(groupByCount(btd, "Start Station")) :
       \E s \in sort(g, "count", FALSE) :
          dep_stations' = s
    /\ pc' = "In20"
    /\ UNCHANGED <<btd, df2, df3, s1, s2, top, i, df, temp, pop_stations, data>>

\* pop_stations = []; the loop's iterator over dep_stations['Start Station'][:3]
In20Begin ==
    /\ pc = "In20"
    /\ pop_stations' = <<>>
    /\ top' = Take([k \in 1..Len(dep_stations) |-> dep_stations[k]["Start Station"]], TopN)
    /\ i' = 1
    /\ pc' = "In20loop"
    /\ UNCHANGED <<btd, df2, df3, s1, s2, dep_stations, df, temp, data>>

\* The frame the loop body hands to transform_df for a station.
StationFrame(station) ==
    toPandas(select(where(btd, "Start Station", station), "Start Date"))

In20Body ==
    /\ pc = "In20loop"
    /\ i <= Len(top)
    /\ LET r == transform_df(StationFrame(top[i]))
       IN  /\ ~r.raised
           /\ df' = r.df
           /\ temp' = r.result
           /\ pop_stations' =
                Append(pop_stations, Scatter(r.result.index, r.result.counts, top[i]))
    /\ i' = i + 1
    /\ UNCHANGED <<pc, btd, df2, df3, s1, s2, dep_stations, top, data>>

\* Mutant: the failing station is skipped and the loop goes on.
In20RaiseSkips ==
    /\ pc = "In20loop"
    /\ i <= Len(top)
    /\ LET r == transform_df(StationFrame(top[i]))
       IN  /\ r.raised
           /\ df' = r.df
    /\ i' = i + 1
    /\ UNCHANGED <<pc, btd, df2, df3, s1, s2, dep_stations, top, temp, pop_stations, data>>

\* transform_df raises on a malformed date (in to_datetime, or with an older
\* pandas in resample on the unparsed index): the exception leaves the loop
\* and ends the cell.
In20Raise ==
    /\ pc = "In20loop"
    /\ i <= Len(top)
    /\ LET r == transform_df(StationFrame(top[i]))
       IN  /\ r.raised
           /\ df' = r.df
    /\ pc' = "raised"
    /\ UNCHANGED <<btd, df2, df3, s1, s2, dep_stations, top, i, temp, pop_stations, data>>

In20End ==
    /\ pc = "In20loop"
    /\ i > Len(top)
    /\ pc' = "In21"
    /\ UNCHANGED <<btd, df2, df3, s1, s2, dep_stations, top, i, df, temp, pop_stations, data>>

In21 ==
    /\ pc = "In21"
    /\ data' = pop_stations
    /\ pc' = "done"
    /\ UNCHANGED <<btd, df2, df3, s1, s2, dep_stations, top, i, df, temp, pop_stations>>

Next ==
    \/ In9
    \/ In12
    \/ In13
    \/ In17
    \/ In20Begin
    \/ In20Body
    \/ In20Raise
    \/ In20End
    \/ In21

Spec == Init /\ [][Next]_vars

(* ------------------------------ claims -------------------------------- *)

Ran9 == pc # "In9"
Ran12 == pc \notin {"In9", "In12"}
Ran13 == pc \notin {"In9", "In12", "In13"}
Ran17 == pc \notin {"In9", "In12", "In13", "In17"}
InLoop == pc \in {"In20loop", "raised", "In21", "done"}

\* The positions of btd whose Duration is below v, and the n-th of them.
Below(v) == {k \in DOMAIN btd.rows : btd.rows[k]["Duration"] < v}
NthBelow(v, n) == CHOOSE k \in Below(v) : Cardinality({j \in Below(v) : j <= k}) = n

FilterExact(frame, v) ==
    /\ Len(frame.rows) = Cardinality(Below(v))
    /\ \A n \in DOMAIN frame.rows :
          /\ frame.rows[n]["d1"] < v
          /\ frame.rows[n]["d1"] = btd.rows[NthBelow(v, n)]["Duration"]

\* C1: the results of 'Duration < 7200' and 'Duration < 2000' hold only
\* durations that satisfy the predicate, hold the duration of every row of btd
\* that satisfies it exactly once, and keep them in btd's order.
C1_FilterExactInOrder ==
    /\ Ran9 => FilterExact(df2, TwoHours)
    /\ Ran12 => FilterExact(df3, HalfHour)

\* C1 witness: a filter that dropped a row, kept two different rows and
\* whose two thresholds differ in effect.
C1_Witness ==
    /\ Ran12
    /\ Len(df2.rows) = 2
    /\ Len(df2.rows) < Len(btd.rows)
    /\ df2.rows[1] # df2.rows[2]
    /\ Len(df3.rows) = 1

Occurrences(rows, r) == Cardinality({k \in DOMAIN rows : rows[k] = r})

SubCollection(small, big) ==
    \A r \in Range(small.rows) : Occurrences(small.rows, r) <= Occurrences(big.rows, r)

\* C10: a sample drawn with withReplacement = False holds only rows of its
\* input, none more often than the input holds it.
C10_SampleIsSubCollection ==
    Ran13 => SubCollection(s1, df2) /\ SubCollection(s2, df3)

\* C10 witness: a sample that kept some rows of its input and dropped others.
C10_Witness ==
    /\ Ran13
    /\ Len(s1.rows) >= 1
    /\ Len(s1.rows) < Len(df2.rows)

\* C8 as stated: every filter step and every sample step keeps the schema of
\* the dataset it is applied to.
C8_SchemaUnchanged ==
    /\ Ran9 => df2.schema = btd.schema
    /\ Ran12 => df3.schema = btd.schema
    /\ Ran13 => s1.schema = df2.schema /\ s2.schema = df3.schema

\* C8 amended: sampling and the where step keep the schema; the two SQL
\* filters project, their schema is the one column d1 of Duration's type.
C8_SchemaOfFilterAndSample ==
    /\ Ran9 => df2.schema = {<<"d1", "long">>}
    /\ Ran12 => df3.schema = {<<"d1", "long">>}
    /\ Ran13 => s1.schema = df2.schema /\ s2.schema = df3.schema
    /\ \A st \in Stations : where(btd, "Start Station", st).schema = btd.schema

\* C8 witness: both samples drawn from non-empty filter results.
C8_Witness ==
    /\ Ran13
    /\ Len(df3.rows) >= 1
    /\ Len(s2.rows) >= 1
    /\ df2.schema # btd.schema

StationRows(st) == {k \in DOMAIN btd.rows : btd.rows[k]["Start Station"] = st}
StationsOf == {btd.rows[k]["Start Station"] : k \in DOMAIN btd.rows}
CountsOf(frame) == [k \in DOMAIN frame |-> frame[k]["count"]]

\* C3: dep_stations has one entry per distinct 'Start Station' value, its
\* counts sum to the number of rows of btd, and they never increase.
C3_GroupRank ==
    Ran17 =>
        /\ Len(dep_stations) = Cardinality(StationsOf)
        /\ {dep_stations[k]["Start Station"] : k \in DOMAIN dep_stations} = StationsOf
        /\ SumSeq(CountsOf(dep_stations)) = Len(btd.rows)
        /\ \A a, b \in DOMAIN dep_stations :
              a < b => dep_stations[a]["count"] >= dep_stations[b]["count"]

\* C3 witness: three groups of which the first is larger than the last.
C3_Witness ==
    /\ Ran17
    /\ Len(dep_stations) = 3
    /\ dep_stations[1]["count"] > dep_stations[3]["count"]

FirstSeen(st) == Min(StationRows(st))

\* C7 as stated: keys with equal counts appear in the order of their first
\* appearance in btd.
C7_TiesByFirstAppearance ==
    Ran17 =>
        \A a, b \in DOMAIN dep_stations :
            (a < b /\ dep_stations[a]["count"] = dep_stations[b]["count"])
                => FirstSeen(dep_stations[a]["Start Station"])
                     < FirstSeen(dep_stations[b]["Start Station"])

Position(st) == CHOOSE k \in DOMAIN dep_stations : dep_stations[k]["Start Station"] = st

\* C7 amended: a station with more rows than another comes before it; the
\* order of stations with equal counts is not fixed.
C7_LargerCountFirst ==
    Ran17 =>
        \A x, y \in StationsOf :
            Cardinality(StationRows(x)) > Cardinality(StationRows(y))
                => Position(x) < Position(y)

\* C7 witness: a tie emitted against the order of first appearance, after a
\* station with a larger count.
C7_Witness ==
    /\ Ran17
    /\ Len(dep_stations) = 3
    /\ dep_stations[1]["count"] > dep_stations[2]["count"]
    /\ dep_stations[2]["count"] = dep_stations[3]["count"]
    /\ FirstSeen(dep_stations[2]["Start Station"])
         > FirstSeen(dep_stations[3]["Start Station"])

\* The day (as the start of its bin) a 'Start Date' string names.
DayNamed(s) == s[1] * HoursPerDay
EventDays(st) == {DayNamed(btd.rows[k]["Start Date"]) : k \in StationRows(st)}
EventsOn(st, day) ==
    Cardinality({k \in StationRows(st) : DayNamed(btd.rows[k]["Start Date"]) = day})

\* The sum of the buckets that carry a count (as pandas sums, skipping NaN).
RECURSIVE SumCounts(_)
SumCounts(y) ==
    IF y = <<>> THEN 0
    ELSE (IF Head(y).nan THEN 0 ELSE Head(y).val) + SumCounts(Tail(y))

\* C4: the series of every resampled station has one bucket per calendar
\* day from the station's first to its last event day, and its counts sum to
\* the number of rows of btd of that station.
C4_DenseDailySeries ==
    \A n \in DOMAIN pop_stations :
        LET e == pop_stations[n]
        IN  /\ Len(e.x) = Len(e.y)
            /\ Len(e.x) >= 1
            /\ e.x[1] = Min(EventDays(e.name))
            /\ e.x[Len(e.x)] = Max(EventDays(e.name))
            /\ \A k \in 1..(Len(e.x) - 1) : e.x[k + 1] = e.x[k] + HoursPerDay
            /\ SumCounts(e.y) = Cardinality(StationRows(e.name))

\* C4 witness: a series of three days for a station with events on the first
\* and the last of them only.
C4_Witness ==
    \E n \in DOMAIN pop_stations :
        /\ Len(pop_stations[n].x) = 3
        /\ Cardinality(EventDays(pop_stations[n].name)) = 2

\* C5 as stated: every bucket carries the number of events of its day, the
\* explicit count 0 on a day without events.
C5_ZeroFilled ==
    \A n \in DOMAIN pop_stations :
        \A k \in DOMAIN pop_stations[n].y :
            pop_stations[n].y[k] = Float(EventsOn(pop_stations[n].name, pop_stations[n].x[k]))

AllParse(st) == \A k \in StationRows(st) : Parsable(btd.rows[k]["Start Date"])
SeriesNames == [k \in DOMAIN pop_stations |-> pop_stations[k].name]

\* C6 as stated: when the cell has ended, every top station whose own dates
\* parse has its series in pop_stations, wherever a failing station stands.
C6_OthersStillProduced ==
    pc \in {"raised", "done"} =>
        \A k \in DOMAIN top : AllParse(top[k]) => top[k] \in Range(SeriesNames)

\* C6 amended: the exception ends the loop; exactly the stations before the
\* failing one have their series appended, the failing one and those after
\* it have none, and data is never built.
C6_LoopStopsAtFailure ==
    InLoop =>
        /\ SeriesNames = SubSeq(top, 1, i - 1)
        /\ \A k \in 1..(i - 1) : AllParse(top[k])
        /\ pc = "raised" =>
              /\ i <= Len(top)
              /\ ~AllParse(top[i])
              /\ \A k \in i..Len(top) : top[k] \notin Range(SeriesNames)
              /\ data = <<>>

\* C6 witness: the loop failed on the second of three stations, of which the
\* third has only dates that parse.
C6_Witness ==
    /\ pc = "raised"
    /\ i = 2
    /\ Len(top) = 3
    /\ AllParse(top[3])
    /\ Len(pop_stations) = 1

Calling == pc = "In20loop" /\ i <= Len(top)

\* C9 as stated: no operation changes the dataset passed to it, transform_df
\* included.
C9_NoInputMutated ==
    [][/\ btd' = btd
       /\ Ran9 => df2' = df2
       /\ Ran12 => df3' = df3
       /\ Calling => df' = StationFrame(top[i])]_vars

\* C9 amended: btd, df2 and df3 are never changed by a later step;
\* transform_df changes the pandas frame passed to it (it gains the column
\* counts), a frame toPandas made new, and returns a new frame.
C9_OnlyTransformDfMutates ==
    [][/\ btd' = btd
       /\ Ran9 => df2' = df2
       /\ Ran12 => df3' = df3
       /\ Calling => /\ df' # StationFrame(top[i])
                     /\ df'.columns = StationFrame(top[i]).columns \cup {"counts"}
                     /\ Len(df'.rows) = Len(StationFrame(top[i]).rows)]_vars

\* C9 witness: transform_df has returned and left its argument with parsed
\* dates and the column counts.
C9_Witness ==
    /\ pc = "In20loop"
    /\ i = 2
    /\ "counts" \in df.columns
    /\ Len(df.rows) >= 1
    /\ temp # NoSeries

====
